---- MODULE Spec2Model ----
(***************************************************************************)
(* Budget-bounded POI crawl of scripts/fetch_google_poi.py: grid tiles,    *)
(* the retrying paginated fetch, the run-wide dedup set and the batched    *)
(* sink writer, driven by main().  Durations are in milliseconds and       *)
(* coordinates in micro-degrees, so that all arithmetic is on integers.    *)
(***************************************************************************)
EXTENDS Integers, Sequences, FiniteSets, TLC

\* ------------------------------------------------------------ parameters
\* Python's None, and the terminal statuses main() reports.
NONE == "NONE"

LOCATION == "Rotterdam, Netherlands"

\* KEYWORDS of the script has nine entries; a run of the model takes the
\* first one or the first two of them.
KEYWORDS == << "bakery", "butcher" >>
KeywordLists == { SubSeq(KEYWORDS, 1, n) : n \in 1..Len(KEYWORDS) }

RADIUS_M == 2000
GRID_STEP_M == (RADIUS_M * 8) \div 10
MAX_PAGES_PER_TILE == 3

\* Cost control: the script ships with 10 ("set high when you want full
\* Rotterdam"); the model runs with a smaller ceiling.
MAX_API_CALLS_TOTAL == 3

\* BigQuery insert batch size: 500 in the script, smaller here.
BQ_BATCH_SIZE == 1

SLEEP_BETWEEN_CALLS_MS == 200
SLEEP_FOR_NEXT_PAGE_TOKEN_MS == 2000
MAX_HTTP_RETRIES == 3
BACKOFF_BASE_MS == 1000
BACKOFF_CAP_MS == 10000
OVER_QUERY_LIMIT_SLEEP_MS == 10000

\* ------------------------------------------------------------ environment
\* Entity ids the search service can return; NONE is a record without an id.
PlaceIds == { "p1", "p2" }
RawPlaces == [ place_id : PlaceIds \cup {NONE} ]

\* Longest result list of one page.
MaxResultsPerPage == 1
ResultLists == UNION { [1..n -> RawPlaces] : n \in 0..MaxResultsPerPage }

\* The continuation token the service hands out with page number n of a
\* fetch (an opaque cursor, different for every page).
Tokens == << "tok1", "tok2", "tok3" >>
TokenOfPage(n) == Tokens[n]

\* Requests that requests.get sent without a response coming back (timeout,
\* connection failure) are not counted by the script; the model lets at most
\* this many happen in a run.
MaxUncountedRequests == 1

\* The sink may report up to this many error entries beyond the batch's size.
MaxExtraErrors == 1

\* Response bodies that parse as JSON objects, for page number n.
Payloads(n) ==
  { [status |-> "OK", results |-> r, next_page_token |-> t] :
      r \in ResultLists, t \in { TokenOfPage(n), NONE } }
  \cup { [status |-> s, results |-> << >>, next_page_token |-> NONE] :
           s \in {"ZERO_RESULTS", "OVER_QUERY_LIMIT", "REQUEST_DENIED"} }

\* What one requests.get (and the handling of its response) can end in.
TransientOutcomes == { "http_5xx", "timeout", "conn_error" }
CountedFailures == { "http_5xx", "http_4xx" }
CaughtFailures == TransientOutcomes \cup { "http_4xx" }
UncaughtFailures == { "other_request_exc", "bad_json" }

Min(a, b) == IF a < b THEN a ELSE b
Max(a, b) == IF a > b THEN a ELSE b

RECURSIVE Pow2(_)
Pow2(n) == IF n <= 0 THEN 1 ELSE 2 * Pow2(n - 1)

RECURSIVE Flatten(_)
Flatten(ss) == IF ss = << >> THEN << >> ELSE Head(ss) \o Flatten(Tail(ss))

\* ------------------------------------------------------------ grid
\* Rotterdam-latitude box of the model: two rows, one column at GRID_STEP_M.
MODEL_BBOX ==
  [ min_lat |-> 51870000, max_lat |-> 51885000,
    min_lng |-> 4350000, max_lng |-> 4360000 ]

\* ROTTERDAM_BBOX in micro-degrees.
ROTTERDAM_BBOX ==
  [ min_lat |-> 51870000, max_lat |-> 52020000,
    min_lng |-> 4350000, max_lng |-> 4600000 ]

\* Boxes a configuration can hold: the shipped one, the model's, one with the
\* latitudes swapped, one with the longitudes swapped, one of a single point.
BBoxes ==
  { ROTTERDAM_BBOX, MODEL_BBOX,
    [ MODEL_BBOX EXCEPT !.min_lat = MODEL_BBOX.max_lat, !.max_lat = MODEL_BBOX.min_lat ],
    [ MODEL_BBOX EXCEPT !.min_lng = MODEL_BBOX.max_lng, !.max_lng = MODEL_BBOX.min_lng ],
    [ MODEL_BBOX EXCEPT !.max_lat = MODEL_BBOX.min_lat, !.max_lng = MODEL_BBOX.min_lng ] }

\* Steps a configuration can hold, in meters.
Steps == { 0 - GRID_STEP_M, 0, GRID_STEP_M }

\* Points after which the model stops following a generator that is still
\* yielding; the shipped box has 121.
MaxGridPoints == 130

\* Rows after which the model stops following a generator that is still
\* changing rows; the shipped box has 11.
MaxGridRows == 12

\* cos(d degrees) in parts per million, for the latitudes of the model.
CosTable == [ d \in 50..53 |->
  CASE d = 50 -> 642788 [] d = 51 -> 629320 [] d = 52 -> 615661 [] d = 53 -> 601815 ]

CosPpm(lat) ==
  LET d == lat \div 1000000
      f == (lat % 1000000) \div 1000
  IN  CosTable[d] - ((CosTable[d] - CosTable[d + 1]) * f) \div 1000

meters_to_lat_deg(m) == (m * 1000000) \div 111320

meters_to_lng_deg(m, lat_deg) ==
  (m * 1000000) \div ((111320 * (CosPpm(lat_deg) \div 1000)) \div 1000)

RECURSIVE GridRow(_, _, _, _)
GridRow(lat, lng, max_lng, lng_step) ==
  IF lng <= max_lng
    THEN << << lat, lng >> >> \o GridRow(lat, lng + lng_step, max_lng, lng_step)
    ELSE << >>

RECURSIVE GridRows(_, _, _, _)
GridRows(lat, bbox, lat_step, lng_step) ==
  IF lat <= bbox.max_lat
    THEN GridRow(lat, bbox.min_lng, bbox.max_lng, lng_step)
           \o GridRows(lat + lat_step, bbox, lat_step, lng_step)
    ELSE << >>

generate_grid_points(bbox, step_m) ==
  LET mid_lat == (bbox.min_lat + bbox.max_lat) \div 2
      lat_step == meters_to_lat_deg(step_m)
      lng_step == meters_to_lng_deg(step_m, mid_lat)
  IN  GridRows(bbox.min_lat, bbox, lat_step, lng_step)

\* ------------------------------------------------------------ raw places
\* Raw records of the search service as to_bq_rows can meet them: with an
\* id, with an empty id or with none, and with or without the other keys.
RawIds == [ place_id : PlaceIds \cup { "" } ] \cup { [ vicinity |-> "Markt 1" ] }
RawNames == { << >>, [ name |-> "Bakkerij Jansen" ] }
RawTypes == { << >>, [ types |-> << "bakery", "food" >> ] }
RawGeometries ==
  { << >>, [ geometry |-> [ location |-> [ lat |-> "51.9000", lng |-> "4.4000" ] ] ] }
NormRaws ==
  { a @@ b @@ c @@ d : a \in RawIds, b \in RawNames, c \in RawTypes, d \in RawGeometries }

Locations == { LOCATION, "Delft" }

\* Readings of the clock of now_utc_iso.
Times == 1..2

\* ------------------------------------------------------------ pure helpers
stable_row_id(location, keyword, place_id) == << location, keyword, place_id >>

\* A backoff whose exponent is the attempt number itself.
BackoffExponentOff(attempt) == Min(BACKOFF_BASE_MS * Pow2(attempt), BACKOFF_CAP_MS)

\* min(BACKOFF_BASE_SEC * (2 ** (attempt - 1)), 10)
Backoff(attempt) == Min(BACKOFF_BASE_MS * Pow2(attempt - 1), BACKOFF_CAP_MS)

\* A ceiling test that lets one request too many through.
LimitReachedLate(counter) == counter > MAX_API_CALLS_TOTAL

\* The three places that compare the counter with the ceiling.
HttpLimitReached(counter) == counter >= MAX_API_CALLS_TOTAL
PageLimitReached(counter) == counter >= MAX_API_CALLS_TOTAL
MainLimitReached(counter) == counter >= MAX_API_CALLS_TOTAL

\* A rate-limit retry written as a loop: every OVER_QUERY_LIMIT is retried.
CooldownRetryAlways(status, logical_try) == status = "OVER_QUERY_LIMIT"

\* `if status == "OVER_QUERY_LIMIT"` is straight-line code after the first
\* call only: the second call's payload falls through to the status test.
ShouldCooldownRetry(status, logical_try) ==
  status = "OVER_QUERY_LIMIT" /\ logical_try = 1

\* A status test that takes "no results" for an error.
StatusAcceptedOkOnly(status) == status = "OK"

StatusAccepted(status) == status \in { "OK", "ZERO_RESULTS" }

\* A fetch that keeps the latest page only.
ExtendOverwrites(all_results, results) == results

\* all_results.extend(results)
Extend(all_results, results) == all_results \o results

Truthy(v) == v # NONE /\ v # ""

\* A dedup that forgets the ids of earlier tiles: repeats are dropped inside
\* one result list only.
RECURSIVE UniqueInList(_, _)
UniqueInList(places, seen) ==
  IF places = << >> THEN << >>
  ELSE LET p == Head(places)
           pid == p.place_id
       IN  IF Truthy(pid)
             THEN << p >> \o UniqueInList(
                                SelectSeq(Tail(places), LAMBDA q : q.place_id # pid), seen)
             ELSE UniqueInList(Tail(places), seen)

\* main(): the places of one tile not seen before, in order, and the seen
\* set after them.  A repeat inside the list is seen by then.
RECURSIVE Unique(_, _)
Unique(places, seen) ==
  IF places = << >> THEN << >>
  ELSE LET p == Head(places)
           pid == p.place_id
       IN  IF Truthy(pid) /\ pid \notin seen
             THEN << p >> \o Unique(Tail(places), seen \cup {pid})
             ELSE Unique(Tail(places), seen)

\* A dedup that never records what it admitted.
SeenAfterForgets(unique, seen) == seen

\* seen_place_ids.add(pid) runs exactly for the places appended to `unique`.
SeenAfter(unique, seen) == seen \cup { unique[i].place_id : i \in 1..Len(unique) }

\* Page parameters that keep the query next to the token.
PageParamsKeepQuery(next_token, tile, keyword) ==
  IF Truthy(next_token)
    THEN [ pagetoken |-> next_token, location |-> tile, radius |-> RADIUS_M,
           keyword |-> keyword ]
    ELSE [ location |-> tile, radius |-> RADIUS_M, keyword |-> keyword ]

\* params of one page request, without the API key (lines 147-156).
PageParams(next_token, tile, keyword) ==
  IF Truthy(next_token)
    THEN [ pagetoken |-> next_token ]
    ELSE [ location |-> tile, radius |-> RADIUS_M, keyword |-> keyword ]

\* dict.get: the value under the key, None when the key is missing.
Get(p, key) == IF key \in DOMAIN p THEN p[key] ELSE NONE

\* (p.get(key) or {}): the dict under the key, the empty dict without one.
GetDict(p, key) == IF key \in DOMAIN p THEN p[key] ELSE << >>

\* (p.get(key, []) or []): the list under the key, the empty list without one.
GetList(p, key) == IF key \in DOMAIN p THEN p[key] ELSE << >>

build_google_maps_url(place_id) ==
  << "https://www.google.com/maps/place/?q=place_id:", place_id >>

\* json.dumps(p, ensure_ascii=False): a text that is a function of p alone.
JsonDumps(p) == << "json", p >>

\* Every column of a row but fetched_at (lines 204-222).
RowColumns(location, keyword, p) ==
  LET geom == GetDict(GetDict(p, "geometry"), "location")
  IN  [ location           |-> location,
        keyword            |-> keyword,
        row_id             |-> stable_row_id(location, keyword, Get(p, "place_id")),
        place_id           |-> Get(p, "place_id"),
        google_maps_url    |-> build_google_maps_url(Get(p, "place_id")),
        name               |-> Get(p, "name"),
        formatted_address  |-> Get(p, "vicinity"),
        business_status    |-> Get(p, "business_status"),
        types              |-> GetList(p, "types"),
        rating             |-> Get(p, "rating"),
        user_ratings_total |-> Get(p, "user_ratings_total"),
        price_level        |-> Get(p, "price_level"),
        lat                |-> Get(geom, "lat"),
        lng                |-> Get(geom, "lng"),
        raw_json           |-> JsonDumps(p) ]

\* A row whose row_id also takes in the time of the fetch.
BqRowStampedId(fetched_at, location, keyword, p) ==
  [ fetched_at |-> fetched_at ]
    @@ [ RowColumns(location, keyword, p) EXCEPT !.row_id = << @, fetched_at >> ]

\* The dict appended for one place (lines 201-223).
BqRow(fetched_at, location, keyword, p) ==
  [ fetched_at |-> fetched_at ] @@ RowColumns(location, keyword, p)

\* fetched_at is now_utc_iso() read once per call (line 191).
to_bq_rows(fetched_at, location, keyword, places) ==
  LET withId == SelectSeq(places, LAMBDA p : Truthy(Get(p, "place_id")))
  IN  [ i \in 1..Len(withId) |->
        BqRow(fetched_at, location, keyword, withId[i]) ]

\* One batch of insert_rows_batched_with_logs: rows[i : i + BQ_BATCH_SIZE],
\* i counted from 0, and what the batch adds to `inserted`.
ChunkOverlapping(rows, i) == SubSeq(rows, Max(i, 1), Min(i + BQ_BATCH_SIZE, Len(rows)))

Chunk(rows, i) == SubSeq(rows, i + 1, Min(i + BQ_BATCH_SIZE, Len(rows)))

\* A writer that counts every row of a batch whatever the sink reports.
BatchInsertedIgnoresErrors(chunk_len, error_count) == chunk_len

\* A writer without the max(ok_count, 0).
BatchInsertedUnclamped(chunk_len, error_count) ==
  IF error_count > 0 THEN chunk_len - error_count ELSE chunk_len

BatchInserted(chunk_len, error_count) ==
  IF error_count > 0 THEN Max(chunk_len - error_count, 0) ELSE chunk_len

\* ------------------------------------------------------------ state
VARIABLES
  status,              \* INIT, RUNNING, BUDGET_EXHAUSTED ([STOP]+[SUMMARY]),
                       \* COMPLETED ([DONE]) or CRASHED (uncaught exception)
  pc,                  \* where the run is
  keywords,            \* the keyword list of the run
  grid,                \* list(generate_grid_points(...))
  kw_i, tile_i,        \* position of the two for-loops of main (from 1)
  api_call_counter,    \* the global request counter
  tile_idx,            \* main's count of tiles fetched
  seen_place_ids, total_found_unique, total_inserted,
  page, next_token, all_results, params,   \* fetch_nearby_all_pages locals
  logical_try,         \* 1 for the first call of a page, 2 for the one after
                       \* the OVER_QUERY_LIMIT sleep
  payload,             \* what http_get_with_retry returned
  attempt,             \* http_get_with_retry's loop variable
  last_outcome,        \* outcome of the latest requests.get of this call
  slept,               \* milliseconds slept by the latest step
  rows, batch_i, inserted,                 \* insert_rows_batched_with_logs
  \* history of the run, for stating properties
  sent,                \* requests.get calls made
  budget_cut,          \* a "[STOP] API limit reached" of the fetch path printed
  stop_reason,         \* why the pagination under way ended
  ok_pages,            \* result lists of the accepted pages of the fetch under way
  first_kw,            \* keyword under which each id was first returned
  produced,            \* rows made by to_bq_rows and passed to the sink writer
  delivered,           \* the batches handed to client.insert_rows_json, in order
  last_errors,         \* length of the error list of the latest insert call
  \* the configuration of the run and the cursor of generate_grid_points
  bbox, step_m, g_lat, g_lng,
  \* to_bq_rows called on its own: the inputs and the two results
  n_in, n_out1, n_out2

vars == << status, pc, keywords, grid, kw_i, tile_i, api_call_counter, tile_idx,
           seen_place_ids, total_found_unique, total_inserted,
           page, next_token, all_results, params, logical_try, payload,
           attempt, last_outcome, slept, rows, batch_i, inserted,
           sent, budget_cut, stop_reason, ok_pages, first_kw, produced,
           delivered, last_errors, bbox, step_m, g_lat, g_lng,
           n_in, n_out1, n_out2 >>

mainVars  == << status, keywords, grid, kw_i, tile_i, tile_idx >>
dedupVars == << seen_place_ids, total_found_unique >>
fetchVars == << page, next_token, all_results, params, logical_try, ok_pages, first_kw >>
httpVars  == << payload, attempt, last_outcome >>
sinkVars  == << rows, batch_i, inserted, produced, delivered, total_inserted,
               last_errors >>
gridVars  == << bbox, step_m, g_lat, g_lng >>
normVars  == << n_in, n_out1, n_out2 >>

NoPayload == [ none |-> TRUE ]
NoParams  == [ none |-> TRUE ]
NoInput   == [ none |-> TRUE ]

\* The module's globals and main's locals before its first statement.
RunStart ==
  /\ status = "INIT"
  /\ grid = << >>
  /\ kw_i = 1 /\ tile_i = 1
  /\ api_call_counter = 0
  /\ tile_idx = 0
  /\ seen_place_ids = {}
  /\ total_found_unique = 0
  /\ total_inserted = 0
  /\ page = 0 /\ next_token = NONE /\ all_results = << >> /\ params = NoParams
  /\ logical_try = 1
  /\ payload = NoPayload
  /\ attempt = 1
  /\ last_outcome = NONE
  /\ slept = 0
  /\ rows = << >> /\ batch_i = 0 /\ inserted = 0
  /\ sent = 0
  /\ budget_cut = FALSE
  /\ stop_reason = NONE
  /\ ok_pages = << >>
  /\ first_kw = [ id \in PlaceIds |-> NONE ]
  /\ produced = << >>
  /\ delivered = << >>
  /\ last_errors = 0
  /\ g_lat = 0 /\ g_lng = 0
  /\ n_out1 = << >> /\ n_out2 = << >>

\* The run of the script on the model's box.
Init ==
  /\ RunStart
  /\ pc = "start"
  /\ keywords \in KeywordLists
  /\ bbox = MODEL_BBOX
  /\ step_m = GRID_STEP_M
  /\ n_in = NoInput

\* ------------------------------------------------------------ main()
Keyword == keywords[kw_i]
Tile == grid[tile_i]
CellsLeft == kw_i <= Len(keywords) /\ tile_i <= Len(grid)

\* bq client, table name and the grid (lines 262-272).
MainStart ==
  /\ UNCHANGED << gridVars, normVars >>
  /\ pc = "start"
  /\ grid' = generate_grid_points(bbox, step_m)
  /\ status' = "RUNNING"
  /\ pc' = "main_loop"
  /\ slept' = 0
  /\ UNCHANGED << keywords, kw_i, tile_i, api_call_counter, tile_idx, dedupVars,
                  fetchVars, httpVars, sinkVars, sent, budget_cut, stop_reason >>

\* Both loops ran out: [DONE].
MainDone ==
  /\ UNCHANGED << gridVars, normVars >>
  /\ pc = "main_loop"
  /\ ~CellsLeft
  /\ status' = "COMPLETED"
  /\ pc' = "done"
  /\ slept' = 0
  /\ UNCHANGED << keywords, grid, kw_i, tile_i, api_call_counter, tile_idx, dedupVars,
                  fetchVars, httpVars, sinkVars, sent, budget_cut, stop_reason >>

\* The check at the head of the tile loop: [STOP], [SUMMARY], return.
MainBudgetStop ==
  /\ UNCHANGED << gridVars, normVars >>
  /\ pc = "main_loop"
  /\ CellsLeft
  /\ MainLimitReached(api_call_counter)
  /\ status' = "BUDGET_EXHAUSTED"
  /\ pc' = "done"
  /\ slept' = 0
  /\ UNCHANGED << keywords, grid, kw_i, tile_i, api_call_counter, tile_idx, dedupVars,
                  fetchVars, httpVars, sinkVars, sent, budget_cut, stop_reason >>

\* tile_idx += 1 and the call of fetch_nearby_all_pages, up to its loop.
MainNextTile ==
  /\ UNCHANGED << gridVars, normVars >>
  /\ pc = "main_loop"
  /\ CellsLeft
  /\ ~MainLimitReached(api_call_counter)
  /\ tile_idx' = tile_idx + 1
  /\ all_results' = << >>
  /\ next_token' = NONE
  /\ page' = 0
  /\ ok_pages' = << >>
  /\ stop_reason' = NONE
  /\ pc' = "page_loop"
  /\ slept' = 0
  /\ UNCHANGED << status, keywords, grid, kw_i, tile_i, api_call_counter, dedupVars, params,
                  logical_try, first_kw, httpVars, sinkVars, sent, budget_cut >>

\* ------------------------------------------------------------ fetch_nearby_all_pages
\* Head of the page loop with the ceiling reached: break.
PageBudgetStop ==
  /\ UNCHANGED << gridVars, normVars >>
  /\ pc = "page_loop"
  /\ PageLimitReached(api_call_counter)
  /\ budget_cut' = TRUE
  /\ stop_reason' = "budget"
  /\ pc' = "fetch_return"
  /\ slept' = 0
  /\ UNCHANGED << mainVars, api_call_counter, dedupVars, fetchVars, httpVars,
                  sinkVars, sent >>

\* The parameters of the page, after the token's activation wait, and the
\* entry into http_get_with_retry.
PageRequest ==
  /\ UNCHANGED << gridVars, normVars >>
  /\ pc = "page_loop"
  /\ ~PageLimitReached(api_call_counter)
  /\ slept' = (IF Truthy(next_token) THEN SLEEP_FOR_NEXT_PAGE_TOKEN_MS ELSE 0)
  /\ params' = PageParams(next_token, Tile, Keyword)
  /\ logical_try' = 1
  /\ attempt' = 1
  /\ last_outcome' = NONE
  /\ pc' = "http"
  /\ UNCHANGED << mainVars, api_call_counter, dedupVars, page, next_token,
                  all_results, ok_pages, first_kw, payload, sinkVars, sent,
                  budget_cut, stop_reason >>

\* ------------------------------------------------------------ http_get_with_retry
\* One turn of the attempt loop finds the ceiling reached: return None.
HttpBudgetStop ==
  /\ UNCHANGED << gridVars, normVars >>
  /\ pc = "http"
  /\ HttpLimitReached(api_call_counter)
  /\ payload' = NoPayload
  /\ budget_cut' = TRUE
  /\ stop_reason' = "budget"
  /\ pc' = "got_payload"
  /\ slept' = 0
  /\ UNCHANGED << mainVars, api_call_counter, dedupVars, fetchVars, attempt,
                  last_outcome, sinkVars, sent >>

\* requests.get answers 2xx with a JSON body: counted, returned.
HttpSuccess ==
  /\ UNCHANGED << gridVars, normVars >>
  /\ pc = "http"
  /\ ~HttpLimitReached(api_call_counter)
  /\ \E body \in Payloads(page + 1) : payload' = body
  /\ sent' = sent + 1
  /\ api_call_counter' = api_call_counter + 1
  /\ last_outcome' = "ok"
  /\ pc' = "got_payload"
  /\ slept' = 0
  /\ UNCHANGED << mainVars, dedupVars, fetchVars, attempt, sinkVars, budget_cut,
                  stop_reason >>

\* The except clause: HTTPError (raised for 5xx by hand and for 4xx by
\* raise_for_status), Timeout, ConnectionError.  A response was counted
\* before it raised; an exception of requests.get itself was not.
HttpFailure ==
  /\ UNCHANGED << gridVars, normVars >>
  /\ pc = "http"
  /\ ~HttpLimitReached(api_call_counter)
  /\ \E o \in CaughtFailures :
       /\ o \in CountedFailures \/ sent - api_call_counter < MaxUncountedRequests
       /\ last_outcome' = o
       /\ api_call_counter' =
            IF o \in CountedFailures THEN api_call_counter + 1 ELSE api_call_counter
  /\ sent' = sent + 1
  /\ slept' = Backoff(attempt)
  /\ IF attempt < MAX_HTTP_RETRIES
       THEN /\ attempt' = attempt + 1
            /\ pc' = "http"
            /\ UNCHANGED << payload, stop_reason >>
       ELSE /\ attempt' = attempt
            /\ payload' = NoPayload
            /\ stop_reason' = "retries"
            /\ pc' = "got_payload"
  /\ UNCHANGED << mainVars, dedupVars, fetchVars, sinkVars, budget_cut >>

\* Anything else propagates out of main: another RequestException of
\* requests.get (not counted), or resp.json() on a body that is no JSON
\* (counted).
HttpCrash ==
  /\ UNCHANGED << gridVars, normVars >>
  /\ pc = "http"
  /\ ~HttpLimitReached(api_call_counter)
  /\ \E o \in UncaughtFailures :
       /\ last_outcome' = o
       /\ api_call_counter' =
            IF o = "bad_json" THEN api_call_counter + 1 ELSE api_call_counter
  /\ sent' = sent + 1
  /\ status' = "CRASHED"
  /\ pc' = "crashed"
  /\ slept' = 0
  /\ UNCHANGED << keywords, grid, kw_i, tile_i, tile_idx, dedupVars, fetchVars, payload,
                  attempt, sinkVars, budget_cut, stop_reason >>

\* ------------------------------------------------------------ the page's payload
\* payload is None: break.
PayloadNone ==
  /\ UNCHANGED << gridVars, normVars >>
  /\ pc = "got_payload"
  /\ payload = NoPayload
  /\ pc' = "fetch_return"
  /\ slept' = 0
  /\ UNCHANGED << mainVars, api_call_counter, dedupVars, fetchVars, httpVars,
                  sinkVars, sent, budget_cut, stop_reason >>

\* OVER_QUERY_LIMIT on the first call: sleep 10 s and call again.
CooldownRetry ==
  /\ UNCHANGED << gridVars, normVars >>
  /\ pc = "got_payload"
  /\ payload # NoPayload
  /\ ShouldCooldownRetry(payload.status, logical_try)
  /\ slept' = OVER_QUERY_LIMIT_SLEEP_MS
  /\ logical_try' = logical_try + 1
  /\ attempt' = 1
  /\ last_outcome' = NONE
  /\ pc' = "http"
  /\ UNCHANGED << mainVars, api_call_counter, dedupVars, page, next_token,
                  all_results, params, ok_pages, first_kw, payload, sinkVars,
                  sent, budget_cut, stop_reason >>

\* status not in ("OK", "ZERO_RESULTS"): break.
StatusAbort ==
  /\ UNCHANGED << gridVars, normVars >>
  /\ pc = "got_payload"
  /\ payload # NoPayload
  /\ ~ShouldCooldownRetry(payload.status, logical_try)
  /\ ~StatusAccepted(payload.status)
  /\ stop_reason' =
       IF payload.status = "OVER_QUERY_LIMIT" THEN "rate_limited" ELSE "status"
  /\ pc' = "fetch_return"
  /\ slept' = 0
  /\ UNCHANGED << mainVars, api_call_counter, dedupVars, fetchVars, httpVars,
                  sinkVars, sent, budget_cut >>

\* The page is taken: extend, next token, and the loop's end or next turn.
PageAccepted ==
  /\ UNCHANGED << gridVars, normVars >>
  /\ pc = "got_payload"
  /\ payload # NoPayload
  /\ ~ShouldCooldownRetry(payload.status, logical_try)
  /\ StatusAccepted(payload.status)
  /\ all_results' = Extend(all_results, payload.results)
  /\ ok_pages' = Append(ok_pages, payload.results)
  /\ first_kw' =
       [ id \in PlaceIds |->
           IF /\ first_kw[id] = NONE
              /\ \E i \in 1..Len(payload.results) : payload.results[i].place_id = id
             THEN Keyword ELSE first_kw[id] ]
  /\ next_token' = payload.next_page_token
  /\ page' = page + 1
  /\ IF payload.next_page_token = NONE
       THEN stop_reason' = "no_token" /\ pc' = "fetch_return"
       ELSE IF page + 1 < MAX_PAGES_PER_TILE
              THEN pc' = "page_loop" /\ UNCHANGED stop_reason
              ELSE stop_reason' = "max_pages" /\ pc' = "fetch_return"
  /\ slept' = 0
  /\ UNCHANGED << mainVars, api_call_counter, dedupVars, params, logical_try,
                  httpVars, sinkVars, sent, budget_cut >>

\* ------------------------------------------------------------ main(), after the fetch
\* fetch_nearby_all_pages has returned: its locals, and those of
\* http_get_with_retry, are gone; `places` is the list it returned.
FetchLocalsGone ==
  /\ page' = 0 /\ next_token' = NONE /\ params' = NoParams /\ logical_try' = 1
  /\ payload' = NoPayload /\ attempt' = 1 /\ last_outcome' = NONE

\* The dedup loop, total_found_unique, to_bq_rows, and the entry into
\* insert_rows_batched_with_logs (lines 284-295, 238-242).
DedupTile ==
  /\ UNCHANGED << gridVars, normVars >>
  /\ pc = "fetch_return"
  /\ LET unique == Unique(all_results, seen_place_ids)
     IN  /\ seen_place_ids' = SeenAfter(unique, seen_place_ids)
         /\ total_found_unique' = total_found_unique + Len(unique)
         /\ rows' = to_bq_rows(tile_idx, LOCATION, Keyword, unique)
         /\ produced' = produced \o to_bq_rows(tile_idx, LOCATION, Keyword, unique)
  /\ batch_i' = 0
  /\ inserted' = 0
  /\ FetchLocalsGone
  /\ ok_pages' = << >>
  /\ stop_reason' = NONE
  /\ pc' = "insert"
  /\ slept' = 0
  /\ UNCHANGED << mainVars, api_call_counter, all_results, first_kw, delivered,
                  total_inserted, last_errors, sent, budget_cut >>

\* One batch: a single insert_rows_json call that returns its error list.
InsertBatch ==
  /\ UNCHANGED << gridVars, normVars >>
  /\ pc = "insert"
  /\ batch_i < Len(rows)
  /\ LET chunk == Chunk(rows, batch_i)
     IN  /\ delivered' = Append(delivered, chunk)
         /\ \E error_count \in 0..(Len(chunk) + MaxExtraErrors) :
              /\ last_errors' = error_count
              /\ inserted' = inserted + BatchInserted(Len(chunk), error_count)
  /\ batch_i' = batch_i + BQ_BATCH_SIZE
  /\ slept' = 0
  /\ UNCHANGED << mainVars, api_call_counter, dedupVars, fetchVars, httpVars,
                  rows, produced, total_inserted, pc, sent, budget_cut,
                  stop_reason >>

\* insert_rows_json raises (transport or API error): nothing catches it.
InsertCrash ==
  /\ UNCHANGED << gridVars, normVars >>
  /\ pc = "insert"
  /\ batch_i < Len(rows)
  /\ delivered' = Append(delivered, Chunk(rows, batch_i))
  /\ status' = "CRASHED"
  /\ pc' = "crashed"
  /\ slept' = 0
  /\ UNCHANGED << keywords, grid, kw_i, tile_i, tile_idx, api_call_counter, dedupVars,
                  fetchVars, httpVars, rows, batch_i, inserted, produced,
                  total_inserted, last_errors, sent, budget_cut, stop_reason >>

\* The batches are done (or there were no rows): total_inserted, the
\* throttling sleep, and the next turn of the two loops.
InsertDone ==
  /\ UNCHANGED << gridVars, normVars >>
  /\ pc = "insert"
  /\ batch_i >= Len(rows)
  /\ total_inserted' = total_inserted + inserted
  /\ slept' = SLEEP_BETWEEN_CALLS_MS
  /\ IF tile_i < Len(grid)
       THEN tile_i' = tile_i + 1 /\ UNCHANGED kw_i
       ELSE tile_i' = 1 /\ kw_i' = kw_i + 1
  /\ rows' = << >> /\ batch_i' = 0 /\ inserted' = 0 /\ last_errors' = 0
  /\ all_results' = << >>
  /\ pc' = "main_loop"
  /\ UNCHANGED << status, keywords, grid, tile_idx, api_call_counter, dedupVars, page,
                  next_token, params, logical_try, ok_pages, first_kw, httpVars,
                  produced, delivered, sent, budget_cut, stop_reason >>

\* ------------------------------------------------------------ specification
Next ==
  \/ MainStart
  \/ MainDone
  \/ MainBudgetStop
  \/ MainNextTile
  \/ PageBudgetStop
  \/ PageRequest
  \/ HttpBudgetStop
  \/ HttpSuccess
  \/ HttpFailure
  \/ HttpCrash
  \/ PayloadNone
  \/ CooldownRetry
  \/ StatusAbort
  \/ PageAccepted
  \/ DedupTile
  \/ InsertBatch
  \/ InsertCrash
  \/ InsertDone

Spec == Init /\ [][Next]_vars

\* The script is one sequential process: whenever it can take a step, it does.
FairSpec == Spec /\ WF_vars(Next)

\* ------------------------------------------------------------ properties
Terminal == { "BUDGET_EXHAUSTED", "COMPLETED" }

IdsOf(places) ==
  { places[i].place_id : i \in { j \in 1..Len(places) : Truthy(places[j].place_id) } }

\* C1: the counter never exceeds the ceiling, and once it equals the ceiling
\* no step sends a request or changes the counter: the consumption after the
\* N-th is refused.
C1_BudgetCeiling ==
  /\ [](api_call_counter <= MAX_API_CALLS_TOTAL)
  /\ [][ api_call_counter = MAX_API_CALLS_TOTAL
           => (sent' = sent /\ api_call_counter' = api_call_counter) ]_vars

\* C1 witness: http_get_with_retry refused a request at the ceiling.
C1_Witness ==
  /\ pc = "got_payload" /\ payload = NoPayload /\ stop_reason = "budget"
  /\ api_call_counter = MAX_API_CALLS_TOTAL

\* C2 (as claimed): a run whose pagination was cut short by the ceiling ends
\* with exactly MAX_API_CALLS_TOTAL counted requests and reports
\* BUDGET_EXHAUSTED, never COMPLETED.
C2_CutRunReportsExhausted ==
  (pc = "done" /\ budget_cut)
    => (status = "BUDGET_EXHAUSTED" /\ api_call_counter = MAX_API_CALLS_TOTAL)

\* C3 (as claimed): the requests sent and the counter agree at every point.
C3_EveryRequestCounted == sent = api_call_counter

\* C4: at most one row per entity id is ever produced, each row carries the
\* keyword under which its id was first returned, the ids with a row are
\* exactly the seen set, and the seen set never loses an id.
C4_AdmittedOnce ==
  /\ [](/\ \A i, j \in 1..Len(produced) :
              produced[i].place_id = produced[j].place_id => i = j
        /\ \A i \in 1..Len(produced) :
              produced[i].keyword = first_kw[produced[i].place_id]
        /\ { produced[i].place_id : i \in 1..Len(produced) } = seen_place_ids)
  /\ [][ seen_place_ids \subseteq seen_place_ids' ]_vars

\* C4 witness: a tile returned only ids already seen under another keyword,
\* and the dedup made no row of them.
C4_Witness ==
  /\ pc = "insert" /\ rows = << >>
  /\ \E i \in 1..Len(all_results) :
       /\ Truthy(all_results[i].place_id)
       /\ first_kw[all_results[i].place_id] # Keyword
  /\ Len(produced) = 1

\* C5 (as claimed): after a 4xx response no further request is sent by the
\* same http_get_with_retry call.
C5_NoRetryAfter4xx ==
  [][ (pc = "http" /\ last_outcome = "http_4xx")
        => (sent' = sent /\ api_call_counter' = api_call_counter) ]_vars

\* C6: a transient failure of attempt k makes the script sleep
\* min(base * 2^(k-1), 10 s) and, while k < MAX_HTTP_RETRIES, try the same
\* parameters again as attempt k+1; after attempt MAX_HTTP_RETRIES the call
\* returns None.  Every step inside the loop leaves it or raises the attempt
\* number, which never passes MAX_HTTP_RETRIES.
C6_RetryBackoff ==
  /\ [](attempt \in 1..MAX_HTTP_RETRIES)
  /\ [][ (pc = "http" /\ sent' = sent + 1 /\ last_outcome' \in TransientOutcomes)
           => /\ slept' = (IF 1000 * Pow2(attempt - 1) < 10000
                             THEN 1000 * Pow2(attempt - 1) ELSE 10000)
              /\ params' = params
              /\ IF attempt < MAX_HTTP_RETRIES
                   THEN pc' = "http" /\ attempt' = attempt + 1
                   ELSE pc' = "got_payload" /\ payload' = NoPayload ]_vars
  /\ [][ pc = "http" => (pc' # "http" \/ attempt' = attempt + 1) ]_vars

\* C6 witness: the third attempt is about to run after two transient
\* failures, the second wait having been two seconds.
C6_Witness ==
  /\ pc = "http" /\ attempt = 3 /\ last_outcome \in TransientOutcomes
  /\ slept = 2000

\* C7: an OVER_QUERY_LIMIT body on the first call of a page makes the fetch
\* sleep the cooldown and call http_get_with_retry once more with the same
\* parameters; an OVER_QUERY_LIMIT body on that second call ends the
\* pagination with the results so far.  No page gets a third call.
C7_RateLimitRetryOnce ==
  /\ [](logical_try \in 1..2)
  /\ [][ (pc = "got_payload" /\ payload # NoPayload
            /\ payload.status = "OVER_QUERY_LIMIT")
           => IF logical_try = 1
                THEN /\ pc' = "http" /\ logical_try' = 2 /\ attempt' = 1
                     /\ slept' = OVER_QUERY_LIMIT_SLEEP_MS
                     /\ params' = params /\ page' = page
                     /\ sent' = sent
                ELSE /\ pc' = "fetch_return"
                     /\ all_results' = all_results
                     /\ sent' = sent ]_vars

\* C7 witness: the second call of a page came back OVER_QUERY_LIMIT too and
\* the pagination was given up.
C7_Witness ==
  /\ pc = "fetch_return" /\ stop_reason = "rate_limited" /\ logical_try = 2

\* C8 (as claimed): the run never ends in an uncaught exception.
C8_RunNeverCrashes == status # "CRASHED"

\* C9 (as claimed): every run eventually reaches BUDGET_EXHAUSTED or
\* COMPLETED.
C9_RunReachesTerminal == <>(status \in Terminal)

\* C10: whatever ended the pagination, the list fetch_nearby_all_pages
\* returns is the concatenation, in page order, of the result lists of the
\* pages it accepted, and main's next step admits every id of that list:
\* each is in the seen set afterwards, the new ones with a row for the sink.
C10_PartialResultsKept ==
  /\ [](pc = "fetch_return" => all_results = Flatten(ok_pages))
  /\ [][ pc = "fetch_return"
           => /\ IdsOf(all_results) \subseteq seen_place_ids'
              /\ \A id \in IdsOf(all_results) \ seen_place_ids :
                   \E i \in 1..Len(rows') : rows'[i].place_id = id ]_vars

\* C10 witness: the retries of a later page ran out after an earlier page
\* had brought results.
C10_Witness ==
  /\ pc = "fetch_return" /\ stop_reason = "retries"
  /\ Len(ok_pages) >= 1 /\ IdsOf(all_results) # {}

\* A body whose status is neither accepted nor a first OVER_QUERY_LIMIT.
UnrecognizedStatus ==
  (pc = "got_payload" /\ payload # NoPayload
     /\ payload.status \notin { "OK", "ZERO_RESULTS" }
     /\ ~(payload.status = "OVER_QUERY_LIMIT" /\ logical_try = 1))

\* C11: a ZERO_RESULTS body is taken as a page with no results: nothing is
\* slept or sent again, an empty list joins the accepted pages and the
\* fetch ends as after any page without a token.  A body with any other
\* status than OK, ZERO_RESULTS or a first OVER_QUERY_LIMIT ends the
\* pagination of this tile only: the results so far are kept, the run stays
\* RUNNING at the same (keyword, tile) pair and main's next steps are the
\* dedup and the sink writer; when the sink writer is through, main is at
\* the head of its loop with the next pair.
C11_StatusHandling ==
  /\ [][ (pc = "got_payload" /\ payload # NoPayload
            /\ payload.status = "ZERO_RESULTS")
           => /\ pc' = "fetch_return" /\ stop_reason' = "no_token"
              /\ all_results' = all_results
              /\ ok_pages' = Append(ok_pages, << >>)
              /\ sent' = sent /\ slept' = 0 /\ status' = "RUNNING" ]_vars
  /\ [][ UnrecognizedStatus
           => /\ pc' = "fetch_return"
              /\ all_results' = all_results /\ ok_pages' = ok_pages
              /\ sent' = sent /\ status' = "RUNNING"
              /\ kw_i' = kw_i /\ tile_i' = tile_i ]_vars
  /\ [][ pc = "fetch_return" => (pc' = "insert" /\ status' = "RUNNING") ]_vars
  /\ [][ (pc = "insert" /\ pc' = "main_loop")
           => /\ status' = "RUNNING"
              /\ << kw_i', tile_i' >> =
                   IF tile_i < Len(grid) THEN << kw_i, tile_i + 1 >>
                                         ELSE << kw_i + 1, 1 >> ]_vars

\* C11 witness: an unrecognized status ended the pagination of the second
\* tile after a page had been accepted.
C11_Witness ==
  /\ pc = "fetch_return" /\ stop_reason = "status" /\ status = "RUNNING"
  /\ Len(ok_pages) >= 1 /\ tile_idx = 2

\* A step that made one insert_rows_json call and went on, and its batch.
BatchStep == pc = "insert" /\ pc' = "insert" /\ Len(delivered') = Len(delivered) + 1
LastBatch == delivered'[Len(delivered')]

genRest ==
  << keywords, kw_i, tile_i, api_call_counter, tile_idx, dedupVars, fetchVars,
     httpVars, sinkVars, sent, budget_cut, stop_reason, slept, bbox, step_m,
     normVars >>

\* lat = min_lat (line 89).
GridBegin ==
  /\ pc = "grid_start"
  /\ g_lat' = bbox.min_lat
  /\ pc' = "grid_rows"
  /\ UNCHANGED << status, grid, g_lng, genRest >>

\* while lat <= max_lat: lng = min_lng (lines 90-91).
GridRowStart ==
  /\ pc = "grid_rows"
  /\ g_lat <= bbox.max_lat
  /\ g_lng' = bbox.min_lng
  /\ pc' = "grid_cols"
  /\ UNCHANGED << status, grid, g_lat, genRest >>

\* while lng <= max_lng: yield; lng += lng_step (lines 92-94).
GridYield ==
  /\ pc = "grid_cols"
  /\ g_lng <= bbox.max_lng
  /\ Len(grid) < MaxGridPoints
  /\ grid' = Append(grid, << g_lat, g_lng >>)
  /\ g_lng' = g_lng + meters_to_lng_deg(step_m, (bbox.min_lat + bbox.max_lat) \div 2)
  /\ UNCHANGED << status, pc, g_lat, genRest >>

\* Rows the generator has left behind.
RowsDone ==
  IF meters_to_lat_deg(step_m) = 0
    THEN 0
    ELSE (g_lat - bbox.min_lat) \div meters_to_lat_deg(step_m)

\* The row is through: lat += lat_step (line 95).
GridRowEnd ==
  /\ pc = "grid_cols"
  /\ g_lng > bbox.max_lng
  /\ RowsDone < MaxGridRows
  /\ g_lat' = g_lat + meters_to_lat_deg(step_m)
  /\ pc' = "grid_rows"
  /\ UNCHANGED << status, grid, g_lng, genRest >>

\* The generator is exhausted; main() goes on to its loops (lines 266-275).
GridDone ==
  /\ pc = "grid_rows"
  /\ g_lat > bbox.max_lat
  /\ status' = "RUNNING"
  /\ pc' = "main_loop"
  /\ g_lat' = 0 /\ g_lng' = 0
  /\ UNCHANGED << grid, genRest >>

\* main() from its first line to the first tile's fetch, for any configuration.
GridInit ==
  /\ RunStart
  /\ pc = "grid_start"
  /\ keywords = KEYWORDS
  /\ bbox \in BBoxes
  /\ step_m \in Steps
  /\ n_in = NoInput

GridNext ==
  \/ GridBegin
  \/ GridRowStart
  \/ GridYield
  \/ GridRowEnd
  \/ GridDone
  \/ MainNextTile
  \/ MainDone

GridSpec == GridInit /\ [][GridNext]_vars

\* BoundingBox invariant of the configuration: min < max on both axes.
ValidBBox(b) == b.min_lat < b.max_lat /\ b.min_lng < b.max_lng

\* C13: with step_m <= 0 the generator yields nothing and the run does not
\* start: it ends in a configuration error before any point or request.
C13_NonPositiveStepRejected ==
  step_m <= 0
    => /\ grid = << >>
       /\ status \in { "INIT", "CONFIG_ERROR" }
       /\ pc \notin { "main_loop", "page_loop", "done" }

\* C14: a box that breaks min < max on an axis is rejected before the run
\* starts: the run neither goes on to a request nor finishes COMPLETED.
C14_InvalidBoxRejected ==
  ~ValidBBox(bbox)
    => /\ status \in { "INIT", "CONFIG_ERROR" }
       /\ pc \notin { "page_loop", "done" }

\* Largest latitude and longitude of a non-empty grid.
MaxLatOf(g) == CHOOSE a \in { g[k][1] : k \in 1..Len(g) } :
                 \A k \in 1..Len(g) : g[k][1] <= a
MaxLngOf(g) == CHOOSE a \in { g[k][2] : k \in 1..Len(g) } :
                 \A k \in 1..Len(g) : g[k][2] <= a

\* Row-major, longitude fastest: latitudes never go down along the sequence,
\* and inside one latitude the longitudes go up.
RowMajor(g) ==
  \A k \in 1..(Len(g) - 1) :
    \/ g[k + 1][1] > g[k][1]
    \/ (g[k + 1][1] = g[k][1] /\ g[k + 1][2] > g[k][2])

\* C15: for a valid box and a positive step the generated grid is finite and
\* non-empty, starts at (min_lat, min_lng), is row-major with longitude
\* fastest, is what the same inputs give on any other call, and on each axis
\* its largest coordinate is within half a step of the box maximum.
C15_GridCoversBox ==
  (ValidBBox(bbox) /\ step_m > 0 /\ pc = "main_loop")
    => /\ grid # << >>
       /\ Len(grid) < MaxGridPoints
       /\ grid[1] = << bbox.min_lat, bbox.min_lng >>
       /\ RowMajor(grid)
       /\ grid = generate_grid_points(bbox, step_m)
       /\ 2 * (bbox.max_lat - MaxLatOf(grid)) <= meters_to_lat_deg(step_m)
       /\ 2 * (bbox.max_lng - MaxLngOf(grid))
            <= meters_to_lng_deg(step_m, (bbox.min_lat + bbox.max_lat) \div 2)

\* ------------------------------------------------------------ to_bq_rows on its own
\* Two calls of to_bq_rows, each on one raw record, at two readings of the clock.
NormInit ==
  /\ RunStart
  /\ pc = "norm_start"
  /\ keywords = KEYWORDS
  /\ bbox = MODEL_BBOX
  /\ step_m = GRID_STEP_M
  /\ n_in \in [ location1 : Locations, keyword1 : { KEYWORDS[1], KEYWORDS[2] },
                raw1 : NormRaws,
                location2 : Locations, keyword2 : { KEYWORDS[1], KEYWORDS[2] },
                raw2 : NormRaws ]

normRest ==
  << status, grid, gridVars, n_in, keywords, kw_i, tile_i, api_call_counter, tile_idx,
     dedupVars, fetchVars, httpVars, sinkVars, sent, budget_cut, stop_reason, slept >>

NormFirst ==
  /\ pc = "norm_start"
  /\ \E t \in Times :
       n_out1' = to_bq_rows(t, n_in.location1, n_in.keyword1, << n_in.raw1 >>)
  /\ pc' = "norm_second"
  /\ UNCHANGED << n_out2, normRest >>

NormSecond ==
  /\ pc = "norm_second"
  /\ \E t \in Times :
       n_out2' = to_bq_rows(t, n_in.location2, n_in.keyword2, << n_in.raw2 >>)
  /\ pc' = "norm_done"
  /\ UNCHANGED << n_out1, normRest >>

NormNext == NormFirst \/ NormSecond

NormSpec == NormInit /\ [][NormNext]_vars

\* The columns of a row other than fetched_at.
ColumnsButTime(row) == [ c \in DOMAIN row \ { "fetched_at" } |-> row[c] ]

\* C16: a raw record without a usable id gives no row and one with an id
\* gives one; two calls with the same location, keyword and raw record give
\* rows equal in row_id and in every column but fetched_at, whatever the
\* clock read; and two calls with the same location, keyword and place id
\* give the same row_id, whatever else the raw records hold.
C16_NormalizationPure ==
  pc = "norm_done"
    => /\ Len(n_out1) = (IF Truthy(Get(n_in.raw1, "place_id")) THEN 1 ELSE 0)
       /\ Len(n_out2) = (IF Truthy(Get(n_in.raw2, "place_id")) THEN 1 ELSE 0)
       /\ (n_in.location1 = n_in.location2 /\ n_in.keyword1 = n_in.keyword2
             /\ n_out1 # << >> /\ n_out2 # << >>)
            => /\ (n_in.raw1 = n_in.raw2
                     => ColumnsButTime(n_out1[1]) = ColumnsButTime(n_out2[1]))
               /\ (n_in.raw1.place_id = n_in.raw2.place_id
                     => n_out1[1].row_id = n_out2[1].row_id)

\* C16 witness: the same record normalized under the same location and
\* keyword at two different readings of the clock.
C16_Witness ==
  /\ pc = "norm_done"
  /\ n_in.location1 = n_in.location2 /\ n_in.keyword1 = n_in.keyword2
  /\ n_in.raw1 = n_in.raw2
  /\ n_out1 # << >> /\ n_out2 # << >>
  /\ n_out1[1].fetched_at # n_out2[1].fetched_at

\* C17: tile_idx, total_found_unique, total_inserted and api_call_counter
\* never go down in a step, and neither does the count a sink writer call is
\* building, whatever the fetch or the sink reports.
C17_CountersMonotone ==
  [][ /\ tile_idx' >= tile_idx
      /\ total_found_unique' >= total_found_unique
      /\ total_inserted' >= total_inserted
      /\ api_call_counter' >= api_call_counter
      /\ (BatchStep => inserted' >= inserted) ]_vars

\* C17 witness: a batch came back with more errors than it had rows, after a
\* tile whose fetch had failed.
C17_Witness ==
  /\ pc = "insert" /\ batch_i > 0
  /\ last_errors > Len(delivered[Len(delivered)])
  /\ inserted = 0
  /\ tile_idx = 2 /\ sent > api_call_counter

\* C18: a fetch gathers at most MAX_PAGES_PER_TILE pages; its first request
\* carries location, radius and keyword, a later one only the token of the
\* page accepted just before it and comes after the activation wait; retries
\* resend the same parameters; and a page without a token ends the fetch.
C18_Pagination ==
  /\ [](Len(ok_pages) <= MAX_PAGES_PER_TILE /\ page <= MAX_PAGES_PER_TILE)
  /\ [](pc = "http"
          => params = (IF page = 0
                         THEN [ location |-> Tile, radius |-> RADIUS_M,
                                keyword |-> Keyword ]
                         ELSE [ pagetoken |-> next_token ]))
  /\ [](pc = "page_loop" /\ page > 0
          => /\ payload # NoPayload
             /\ next_token # NONE
             /\ next_token = payload.next_page_token
             /\ Len(ok_pages) = page)
  /\ [][ (pc = "page_loop" /\ pc' = "http" /\ page > 0)
           => slept' = SLEEP_FOR_NEXT_PAGE_TOKEN_MS ]_vars
  /\ [][ (pc = "got_payload" /\ page' = page + 1)
           => /\ next_token' = payload.next_page_token
              /\ (payload.next_page_token = NONE => pc' = "fetch_return")
              /\ (pc' = "page_loop" => page' < MAX_PAGES_PER_TILE) ]_vars

\* C18 witness: the third page of a fetch, asked for with the second page's
\* token alone, has come back with yet another token.
C18_Witness ==
  /\ pc = "got_payload" /\ page = 2
  /\ params = [ pagetoken |-> TokenOfPage(2) ]
  /\ payload # NoPayload /\ payload.status = "OK"
  /\ payload.next_page_token # NONE

\* C19: total_inserted, with the count of a sink writer call under way, never
\* exceeds total_found_unique, and total_found_unique is the size of
\* seen_place_ids, which holds usable ids only.
C19_InsertedWithinFound ==
  /\ total_inserted <= total_found_unique
  /\ total_inserted + inserted <= total_found_unique
  /\ total_found_unique = Cardinality(seen_place_ids)
  /\ \A id \in seen_place_ids : Truthy(id)

\* C19 witness: two places found, and the sink has reported errors for one.
C19_Witness ==
  /\ pc = "main_loop"
  /\ total_found_unique = 2 /\ total_inserted = 1
  /\ Len(delivered) = 2

\* C20: no place id is in two rows handed to the sink, every id handed over
\* is in seen_place_ids, and seen_place_ids never loses an id.
C20_DeliveredAtMostOnce ==
  /\ [](LET d == Flatten(delivered)
        IN  /\ \A i, j \in 1..Len(d) : d[i].place_id = d[j].place_id => i = j
            /\ \A i \in 1..Len(d) : d[i].place_id \in seen_place_ids)
  /\ [][ seen_place_ids \subseteq seen_place_ids' ]_vars

\* C20 witness: a place whose only batch came back with errors is returned
\* again by a later tile, and no row goes to the sink for it.
C20_Witness ==
  /\ pc = "insert" /\ tile_idx = 2
  /\ rows = << >>
  /\ Len(delivered) = 1 /\ total_inserted = 0
  /\ \E i \in 1..Len(all_results) :
       all_results[i].place_id = delivered[1][1].place_id

====
